---- MODULE Spec2Model ----
(***************************************************************************)
(* Carbon credit wallet and ledger of carbon_backend/core:                 *)
(*   wallet_models.py  (CarbonWallet, WalletTransaction, CreditTransfer)   *)
(*   wallet_service.py (WalletService, CreditVerificationService)          *)
(*                                                                         *)
(* The store is the database: the rows of carbon_wallets,                  *)
(* wallet_transactions and credit_transfers.  Every request handler works  *)
(* on its own in-memory copies of the rows it has selected; save() writes  *)
(* the whole copy back.  One action is one ORM statement (SELECT, UPDATE,  *)
(* INSERT, COMMIT) together with the Python code that runs up to it.       *)
(* Statements outside transaction.atomic() commit at once; inside it they  *)
(* are private to the transaction until COMMIT (read committed, with a row *)
(* lock held from the first UPDATE of a row to the end of the transaction).*)
(*                                                                         *)
(* Amounts are counted in units of 0.0001 credit, the resolution of the    *)
(* DecimalField(max_digits=12, decimal_places=4) columns.                  *)
(***************************************************************************)
EXTENDS Integers, Sequences, FiniteSets, TLC

\* ---- bounds -------------------------------------------------------------
MaxAmount == 2
InitFund == 4
InitFrozen == 2
MaxRequests == 2

Procs == {"p1", "p2"}
Users == {"u1", "u2"}
Emails == Users \cup {"nobody"}
Amounts == 0..MaxAmount
Methods == {"add_credits", "freeze_credits", "unfreeze_credits", "deduct_credits"}

VARIABLES
    wallets,    \* carbon_wallets: sequence of rows, the id is the position
    txlog,      \* wallet_transactions, per wallet id, in insertion order
    transfers,  \* credit_transfers: sequence of rows, the id is the position
    wbuf,       \* per process: rows updated inside its open transaction
    proc,       \* per process: the request it runs and its in-memory objects
    started,    \* number of requests started so far
    init0,      \* the wallets table of the initial state (never changes)
    credit_expiry,   \* credit_expiry: sequence of rows, the id is the position
    wallet_settings  \* wallet_settings: one row per wallet, at the wallet's id

vars == <<wallets, txlog, transfers, wbuf, proc, started, init0, credit_expiry, wallet_settings>>

\* ---- rows and in-memory objects -----------------------------------------
\* CarbonWallet row; xact is the open transaction that inserted it, "none"
\* once committed, "aborted" when that transaction was rolled back.
WalletRow(owner, b) ==
    [owner |-> owner, kind |-> "employee", status |-> "active",
     balance |-> b, available |-> b, frozen |-> 0, xact |-> "none"]

\* In-memory CarbonWallet instance: the fields the methods read and save.
NoWallet == [id |-> 0, balance |-> 0, available |-> 0, frozen |-> 0]
\* In-memory CreditTransfer instance.
NoTransfer == [id |-> 0, from |-> 0, to |-> 0, amount |-> 0,
               status |-> "", failure_reason |-> ""]
NoTx == [type |-> "", amount |-> 0, balance_after |-> 0]

\* WalletSettings row as WalletSettings.objects.create(wallet=wallet) makes it
SettingsRow(w) ==
    [wallet |-> w, auto_transfer_enabled |-> FALSE,
     auto_transfer_threshold |-> 0, auto_transfer_recipient |-> "",
     xact |-> "none"]

EmptyBuf == [i \in {} |-> WalletRow("u1", 0)]
Put(f, i, v) == [j \in (DOMAIN f) \cup {i} |-> IF j = i THEN v ELSE f[j]]

\* Result of a CarbonWallet method: the exception text ("" when none), the
\* instance after the method's assignments and the row it creates.
Raise(msg, self) == [err |-> msg, obj |-> self, tx |-> NoTx]
Return(obj, type, amount) ==
    [err |-> "", obj |-> obj,
     tx |-> [type |-> type, amount |-> amount, balance_after |-> obj.balance]]

\* ---- CarbonWallet methods (the in-memory part) --------------------------
\* add_credits without its second assignment.
add_credits_KeepsAvailable(self, amount) ==
    IF amount <= 0 THEN Raise("Amount must be positive", self)
    ELSE Return([self EXCEPT !.balance = @ + amount], "credit", amount)

add_credits(self, amount) ==
    IF amount <= 0 THEN Raise("Amount must be positive", self)
    ELSE Return([self EXCEPT !.balance = @ + amount,
                             !.available = @ + amount],
                "credit", amount)

\* freeze_credits without its second check.
freeze_credits_Unchecked(self, amount) ==
    IF amount <= 0 THEN Raise("Amount must be positive", self)
    ELSE Return([self EXCEPT !.available = @ - amount,
                             !.frozen = @ + amount],
                "freeze", amount)

freeze_credits(self, amount) ==
    IF amount <= 0 THEN Raise("Amount must be positive", self)
    ELSE IF self.available < amount
         THEN Raise("Insufficient available credits", self)
         ELSE Return([self EXCEPT !.available = @ - amount,
                                  !.frozen = @ + amount],
                     "freeze", amount)

\* unfreeze_credits releasing everything that is frozen.
unfreeze_credits_ReleasesAll(self, amount) ==
    IF amount <= 0 THEN Raise("Amount must be positive", self)
    ELSE IF self.frozen < amount
         THEN Raise("Insufficient frozen credits", self)
         ELSE Return([self EXCEPT !.frozen = 0,
                                  !.available = @ + self.frozen],
                     "unfreeze", amount)

\* unfreeze_credits with deduct_credits' second assignment (balance instead
\* of available).
unfreeze_credits_TakesBalance(self, amount) ==
    IF amount <= 0 THEN Raise("Amount must be positive", self)
    ELSE IF self.frozen < amount
         THEN Raise("Insufficient frozen credits", self)
         ELSE Return([self EXCEPT !.frozen = @ - amount,
                                  !.balance = @ - amount],
                     "unfreeze", amount)

unfreeze_credits(self, amount) ==
    IF amount <= 0 THEN Raise("Amount must be positive", self)
    ELSE IF self.frozen < amount
         THEN Raise("Insufficient frozen credits", self)
         ELSE Return([self EXCEPT !.frozen = @ - amount,
                                  !.available = @ + amount],
                     "unfreeze", amount)

\* deduct_credits checking balance where the code checks available_balance.
deduct_credits_ChecksBalance(self, amount) ==
    IF amount <= 0 THEN Raise("Amount must be positive", self)
    ELSE IF self.balance < amount
         THEN Raise("Insufficient available credits", self)
         ELSE Return([self EXCEPT !.available = @ - amount,
                                  !.balance = @ - amount],
                     "debit", 0 - amount)

\* deduct_credits without its second assignment.
deduct_credits_KeepsBalance(self, amount) ==
    IF amount <= 0 THEN Raise("Amount must be positive", self)
    ELSE IF self.available < amount
         THEN Raise("Insufficient available credits", self)
         ELSE Return([self EXCEPT !.available = @ - amount],
                     "debit", 0 - amount)

deduct_credits(self, amount) ==
    IF amount <= 0 THEN Raise("Amount must be positive", self)
    ELSE IF self.available < amount
         THEN Raise("Insufficient available credits", self)
         ELSE Return([self EXCEPT !.available = @ - amount,
                                  !.balance = @ - amount],
                     "debit", 0 - amount)

Call(m, self, amount) ==
    CASE m = "add_credits" -> add_credits(self, amount)
      [] m = "freeze_credits" -> freeze_credits(self, amount)
      [] m = "unfreeze_credits" -> unfreeze_credits(self, amount)
      [] OTHER -> deduct_credits(self, amount)

\* ---- the store as a process sees it -------------------------------------
WalletIds == DOMAIN wallets
Visible(p, i) == wallets[i].xact \in {"none", p}
RowOf(p, i) == IF i \in DOMAIN wbuf[p] THEN wbuf[p][i] ELSE wallets[i]
\* SELECT of one wallet row into a fresh instance
Load(p, i) ==
    [id |-> i, balance |-> RowOf(p, i).balance,
     available |-> RowOf(p, i).available, frozen |-> RowOf(p, i).frozen]
\* A row updated by another open transaction is locked until it ends.
Locked(p, i) == \E q \in Procs \ {p} : i \in DOMAIN wbuf[q]

\* Model.save() of a wallet instance: UPDATE of all of its fields.
SavedRow(p, o) ==
    [RowOf(p, o.id) EXCEPT !.balance = o.balance,
                           !.available = o.available,
                           !.frozen = o.frozen]
Buffered(p, i) == proc[p].atomic /\ wallets[i].xact = "none"
SaveWallet(p, o) ==
    /\ ~Locked(p, o.id)
    /\ IF Buffered(p, o.id)
       THEN /\ wbuf' = [wbuf EXCEPT ![p] = Put(@, o.id, SavedRow(p, o))]
            /\ UNCHANGED wallets
       ELSE /\ wallets' = [wallets EXCEPT ![o.id] = SavedRow(p, o)]
            /\ UNCHANGED wbuf

\* WalletTransaction.objects.create(wallet=self, ...); the four methods pass
\* no source_id, so the column is NULL (written "")
CreateTx(p, i, tx) ==
    txlog' = [txlog EXCEPT ![i] = Append(@,
                [type |-> tx.type, amount |-> tx.amount,
                 balance_after |-> tx.balance_after, source_id |-> "",
                 xact |-> IF proc[p].atomic THEN p ELSE "none"])]

\* ---- processes ------------------------------------------------------------
Idle ==
    [pc |-> "idle", req |-> "none", method |-> "", amount |-> 0,
     fromUser |-> "", toEmail |-> "",
     fw |-> NoWallet, tw |-> NoWallet, tr |-> NoTransfer,
     fw0 |-> NoWallet, tw0 |-> NoWallet, status0 |-> "",
     tx |-> NoTx, err |-> "", atomic |-> FALSE, result |-> "",
     overlap |-> FALSE,
     log0 |-> <<>>,      \* the wallet's rows when a method call began
     sw |-> NoWallet,    \* process_auto_transfers: settings.wallet
     batch |-> <<>>,     \* a batch run's query result, in iteration order
     idx |-> 0,          \* the position of the run's loop in batch
     out |-> <<>>,       \* the list the run returns
     store0 |-> <<>>,    \* the wallets table when the run began
     source_id |-> "",   \* WalletService.add_credits: its source_id argument
     txk |-> 0]          \* the position of the row a method call created

\* A request is handed to the first free worker.
Rank(p) == IF p = "p1" THEN 1 ELSE 2
Busy(p) == proc[p].pc \notin {"idle", "done"}

\* A request of p starts, after the requests that have returned were handed
\* back: p's record is r, and every request in flight now overlaps it.
Begin(p, r) ==
    /\ proc[p].pc = "idle"
    /\ \A q \in Procs : proc[q].pc # "done"
    /\ \A q \in Procs : proc[q].pc = "idle" => Rank(p) <= Rank(q)
    /\ started < MaxRequests
    /\ started' = started + 1
    /\ proc' = [q \in Procs |->
                  IF q = p THEN [r EXCEPT !.overlap = \E o \in Procs \ {p} : Busy(o)]
                  ELSE IF Busy(q) THEN [proc[q] EXCEPT !.overlap = TRUE]
                  ELSE proc[q]]

\* ---- a caller invokes one CarbonWallet method on a wallet it selected ----
\* CarbonWallet.objects.get(id=i), outside any transaction
StartCall(p, i, m, amount) ==
    /\ i \in WalletIds /\ wallets[i].xact = "none"
    /\ Begin(p, [Idle EXCEPT !.pc = "call", !.req = "call", !.method = m,
                             !.amount = amount, !.fw = Load(p, i),
                             !.fw0 = Load(p, i), !.log0 = txlog[i]])
    /\ UNCHANGED <<wallets, txlog, transfers, wbuf, init0, credit_expiry, wallet_settings>>

\* the method's checks, its assignments and self.save()
CallSave(p) ==
    LET r == Call(proc[p].method, proc[p].fw, proc[p].amount) IN
    /\ proc[p].pc = "call"
    /\ IF r.err # ""
       THEN /\ proc' = [proc EXCEPT ![p].pc = "done", ![p].err = r.err,
                                    ![p].result = "error"]
            /\ UNCHANGED <<wallets, wbuf>>
       ELSE /\ SaveWallet(p, r.obj)
            /\ proc' = [proc EXCEPT ![p].pc = "call_tx", ![p].fw = r.obj,
                                    ![p].tx = r.tx]
    /\ UNCHANGED <<txlog, transfers, started, init0, credit_expiry, wallet_settings>>

\* where the method returns to: WalletService.add_credits goes on to its
\* "if source_id:" branch, any other caller is done
AfterCall(r) ==
    IF r.req = "add" /\ r.source_id # "" THEN "ac_source" ELSE "done"

\* the method's WalletTransaction.objects.create
CallCreateTx(p) ==
    /\ proc[p].pc = "call_tx"
    /\ CreateTx(p, proc[p].fw.id, proc[p].tx)
    /\ proc' = [proc EXCEPT ![p].pc = AfterCall(proc[p]), ![p].result = "ok",
                            ![p].txk = Len(txlog[proc[p].fw.id]) + 1]
    /\ UNCHANGED <<wallets, transfers, wbuf, started, init0, credit_expiry, wallet_settings>>

\* ---- WalletService.transfer_credits ---------------------------------------
\* The employee wallets of an owner that p's statements can see.
Matches(p, owner, activeOnly) ==
    {i \in WalletIds : /\ Visible(p, i)
                       /\ wallets[i].owner = owner
                       /\ wallets[i].kind = "employee"
                       /\ (activeOnly => wallets[i].status = "active")}
TheOne(S) == CHOOSE i \in S : TRUE

\* execute_transfer's first statement, on the in-memory status
AfterPendingCheck(status) ==
    IF status # "pending"
    THEN [pc |-> "ex_except", err |-> "Transfer is not in pending status"]
    ELSE [pc |-> "ex_freeze", err |-> ""]

\* where transfer_credits returns to: its caller in process_auto_transfers,
\* or the request is over
Returned(r) == IF r.req = "auto" THEN "at_result" ELSE "done"

\* with transaction.atomic(): from_wallet = CarbonWallet.objects.get(...),
\* for the call whose arguments are in r
EnterTransfer(p, r) ==
    LET m == Matches(p, r.fromUser, TRUE) IN
    IF Cardinality(m) = 1
    THEN [r EXCEPT !.pc = "tc_to", !.atomic = TRUE,
                   !.fw = Load(p, TheOne(m))]
    ELSE [r EXCEPT !.pc = Returned(r), !.result = "error",
                   !.err = IF m = {}
                           THEN "Wallet not found or inactive"
                           ELSE "MultipleObjectsReturned"]

StartTransfer(p, fromUser, toEmail, amount) ==
    /\ Begin(p, EnterTransfer(p, [Idle EXCEPT !.req = "transfer",
                                              !.fromUser = fromUser,
                                              !.toEmail = toEmail,
                                              !.amount = amount]))
    /\ UNCHANGED <<wallets, txlog, transfers, wbuf, init0, credit_expiry, wallet_settings>>

\* to_user = User.objects.get(email=...); the SELECT of get_or_create_wallet
TransferGetTo(p) ==
    LET m == Matches(p, proc[p].toEmail, FALSE) IN
    /\ proc[p].pc = "tc_to"
    /\ proc' = [proc EXCEPT ![p] =
         IF proc[p].toEmail \notin Users
         THEN [@ EXCEPT !.pc = Returned(proc[p]), !.atomic = FALSE,
                        !.result = "error", !.err = "Recipient not found"]
         ELSE IF m = {} THEN [@ EXCEPT !.pc = "tc_insert"]
         ELSE IF Cardinality(m) = 1
              THEN [@ EXCEPT !.pc = "tc_create", !.tw = Load(p, TheOne(m))]
              ELSE [@ EXCEPT !.pc = Returned(proc[p]), !.atomic = FALSE,
                             !.result = "error",
                             !.err = "MultipleObjectsReturned"]]
    /\ UNCHANGED <<wallets, txlog, transfers, wbuf, started, init0, credit_expiry, wallet_settings>>

\* the INSERT of get_or_create_wallet (defaults: zero balances, active) and,
\* the wallet being created, the INSERT of its WalletSettings; both rows are
\* private to the open transaction
TransferInsertTo(p) ==
    /\ proc[p].pc = "tc_insert"
    /\ wallets' = Append(wallets,
                    [WalletRow(proc[p].toEmail, 0) EXCEPT !.xact = p])
    /\ txlog' = Append(txlog, <<>>)
    /\ wallet_settings' = Append(wallet_settings,
                    [SettingsRow(Len(wallets) + 1) EXCEPT !.xact = p])
    /\ proc' = [proc EXCEPT ![p].pc = "tc_create",
                            ![p].tw = [NoWallet EXCEPT !.id = Len(wallets) + 1]]
    /\ UNCHANGED <<transfers, wbuf, started, init0, credit_expiry>>

\* CreditTransfer.objects.create(...); transfer.execute_transfer() begins
TransferCreate(p) ==
    LET c == AfterPendingCheck("pending") IN
    /\ proc[p].pc = "tc_create"
    /\ transfers' = Append(transfers,
                      [from |-> proc[p].fw.id, to |-> proc[p].tw.id,
                       amount |-> proc[p].amount, status |-> "pending",
                       failure_reason |-> "", xact |-> p])
    /\ proc' = [proc EXCEPT
                  ![p].pc = c.pc, ![p].err = c.err,
                  ![p].tr = [id |-> Len(transfers) + 1,
                             from |-> proc[p].fw.id, to |-> proc[p].tw.id,
                             amount |-> proc[p].amount, status |-> "pending",
                             failure_reason |-> ""],
                  ![p].fw0 = proc[p].fw, ![p].tw0 = proc[p].tw,
                  ![p].status0 = "pending"]
    /\ UNCHANGED <<wallets, txlog, wbuf, started, init0, credit_expiry, wallet_settings>>

\* ---- CreditTransfer.execute_transfer ---------------------------------------
\* A caller selects a stored transfer and calls execute_transfer() on it.
StartExecute(p, t) ==
    LET row == transfers[t]
        c == AfterPendingCheck(row.status)
    IN
    /\ t \in DOMAIN transfers /\ row.xact = "none"
    /\ Begin(p, [Idle EXCEPT
                   !.req = "execute", !.pc = c.pc, !.err = c.err,
                   !.amount = row.amount,
                   !.tr = [id |-> t, from |-> row.from, to |-> row.to,
                           amount |-> row.amount, status |-> row.status,
                           failure_reason |-> row.failure_reason],
                   !.fw0 = Load(p, row.from), !.tw0 = Load(p, row.to),
                   !.status0 = row.status])
    /\ UNCHANGED <<wallets, txlog, transfers, wbuf, init0, credit_expiry, wallet_settings>>

\* self.from_wallet / self.to_wallet are fetched on first use
ExecuteLoadWallets(p) ==
    /\ proc[p].pc \in {"ex_freeze", "ex_unfreeze"}
    /\ proc[p].fw.id = 0
    /\ proc' = [proc EXCEPT
                  ![p].fw = Load(p, proc[p].tr.from),
                  ![p].tw = IF proc[p].pc = "ex_freeze"
                            THEN Load(p, proc[p].tr.to) ELSE @]
    /\ UNCHANGED <<wallets, txlog, transfers, wbuf, started, init0, credit_expiry, wallet_settings>>

\* One CarbonWallet method called by execute_transfer at pc `at`, on the
\* instance `o`: it raises (control goes to `onErr`) or saves the wallet.
ExecuteCall(p, at, m, o, isFrom, onErr, next) ==
    LET r == Call(m, o, proc[p].tr.amount) IN
    /\ proc[p].pc = at
    /\ o.id # 0
    /\ IF r.err # ""
       THEN /\ proc' = [proc EXCEPT ![p].pc = onErr,
                                    ![p].err = IF at = "ex_unfreeze"
                                               THEN @ ELSE r.err]
            /\ UNCHANGED <<wallets, wbuf>>
       ELSE /\ SaveWallet(p, r.obj)
            /\ proc' = [proc EXCEPT ![p].pc = next, ![p].tx = r.tx,
                                    ![p].fw = IF isFrom THEN r.obj ELSE @,
                                    ![p].tw = IF isFrom THEN @ ELSE r.obj]
    /\ UNCHANGED <<txlog, transfers, started, init0, credit_expiry, wallet_settings>>

ExecuteCreateTx(p, at, i, next) ==
    /\ proc[p].pc = at
    /\ CreateTx(p, i, proc[p].tx)
    /\ proc' = [proc EXCEPT ![p].pc = next]
    /\ UNCHANGED <<wallets, transfers, wbuf, started, init0, credit_expiry, wallet_settings>>

\* where execute_transfer's caller continues after `return False`
AfterExecute(p) ==
    IF proc[p].req \in {"transfer", "auto"} THEN "tc_commit" ELSE "done"

ExecuteFreeze(p) ==
    ExecuteCall(p, "ex_freeze", "freeze_credits", proc[p].fw, TRUE,
                "ex_except", "ex_freeze_tx")
ExecuteFreezeTx(p) ==
    ExecuteCreateTx(p, "ex_freeze_tx", proc[p].fw.id, "ex_deduct")
ExecuteDeduct(p) ==
    ExecuteCall(p, "ex_deduct", "deduct_credits", proc[p].fw, TRUE,
                "ex_except", "ex_deduct_tx")
ExecuteDeductTx(p) ==
    ExecuteCreateTx(p, "ex_deduct_tx", proc[p].fw.id, "ex_add")
ExecuteAdd(p) ==
    ExecuteCall(p, "ex_add", "add_credits", proc[p].tw, FALSE,
                "ex_except", "ex_add_tx")
ExecuteAddTx(p) ==
    ExecuteCreateTx(p, "ex_add_tx", proc[p].tw.id, "ex_complete")

\* The fourth step as it would run with timezone imported: the transfer is
\* saved completed and execute_transfer returns True.
ExecuteComplete_Stores(p) ==
    /\ proc[p].pc = "ex_complete"
    /\ proc' = [proc EXCEPT ![p].tr.status = "completed",
                            ![p].pc = AfterExecute(p)]
    /\ transfers' = [transfers EXCEPT ![proc[p].tr.id].status = "completed"]
    /\ UNCHANGED <<wallets, txlog, wbuf, started, init0, credit_expiry, wallet_settings>>

\* self.status = 'completed'; self.completed_at = timezone.now():
\* wallet_models.py imports no `timezone`, so the second statement raises
\* NameError before self.save() is reached.
ExecuteComplete(p) ==
    /\ proc[p].pc = "ex_complete"
    /\ proc' = [proc EXCEPT ![p].tr.status = "completed",
                            ![p].err = "name 'timezone' is not defined",
                            ![p].pc = "ex_except"]
    /\ UNCHANGED <<wallets, txlog, transfers, wbuf, started, init0, credit_expiry, wallet_settings>>

\* except Exception as e: status = 'failed'; failure_reason = str(e); save()
ExecuteExcept(p) ==
    /\ proc[p].pc = "ex_except"
    /\ proc' = [proc EXCEPT ![p].tr.status = "failed",
                            ![p].tr.failure_reason = proc[p].err,
                            ![p].pc = "ex_unfreeze"]
    /\ transfers' = [transfers EXCEPT
                       ![proc[p].tr.id].status = "failed",
                       ![proc[p].tr.id].failure_reason = proc[p].err]
    /\ UNCHANGED <<wallets, txlog, wbuf, started, init0, credit_expiry, wallet_settings>>

\* try: self.from_wallet.unfreeze_credits(self.amount, ...) except: pass
ExecuteUnfreeze(p) ==
    ExecuteCall(p, "ex_unfreeze", "unfreeze_credits", proc[p].fw, TRUE,
                AfterExecute(p), "ex_unfreeze_tx")
ExecuteUnfreezeTx(p) ==
    ExecuteCreateTx(p, "ex_unfreeze_tx", proc[p].fw.id, AfterExecute(p))

\* ---- the end of the transaction.atomic() block -----------------------------
Commit(p) ==
    /\ wallets' = [i \in WalletIds |->
                     IF i \in DOMAIN wbuf[p] THEN wbuf[p][i]
                     ELSE IF wallets[i].xact = p
                          THEN [wallets[i] EXCEPT !.xact = "none"]
                          ELSE wallets[i]]
    /\ txlog' = [i \in WalletIds |->
                   [k \in DOMAIN txlog[i] |->
                      IF txlog[i][k].xact = p
                      THEN [txlog[i][k] EXCEPT !.xact = "none"]
                      ELSE txlog[i][k]]]
    /\ transfers' = [t \in DOMAIN transfers |->
                       IF transfers[t].xact = p
                       THEN [transfers[t] EXCEPT !.xact = "none"]
                       ELSE transfers[t]]
    /\ wallet_settings' = [k \in DOMAIN wallet_settings |->
                       IF wallet_settings[k].xact = p
                       THEN [wallet_settings[k] EXCEPT !.xact = "none"]
                       ELSE wallet_settings[k]]
    /\ wbuf' = [wbuf EXCEPT ![p] = EmptyBuf]

NotOf(p, row) == row.xact # p
Rollback(p) ==
    /\ wallets' = [i \in WalletIds |->
                     IF wallets[i].xact = p
                     THEN [wallets[i] EXCEPT !.xact = "aborted"]
                     ELSE wallets[i]]
    /\ txlog' = [i \in WalletIds |->
                   SelectSeq(txlog[i], LAMBDA row : NotOf(p, row))]
    /\ transfers' = [t \in DOMAIN transfers |->
                       IF transfers[t].xact = p
                       THEN [transfers[t] EXCEPT !.xact = "aborted"]
                       ELSE transfers[t]]
    /\ wallet_settings' = [k \in DOMAIN wallet_settings |->
                       IF wallet_settings[k].xact = p
                       THEN [wallet_settings[k] EXCEPT !.xact = "aborted"]
                       ELSE wallet_settings[k]]
    /\ wbuf' = [wbuf EXCEPT ![p] = EmptyBuf]

\* execute_transfer returned: the block is left normally and commits
TransferCommit(p) ==
    /\ proc[p].pc = "tc_commit"
    /\ Commit(p)
    /\ proc' = [proc EXCEPT ![p].pc = Returned(proc[p]), ![p].atomic = FALSE,
                            ![p].result = IF proc[p].tr.status = "completed"
                                          THEN "ok" ELSE "error"]
    /\ UNCHANGED <<started, init0, credit_expiry>>

\* The wallet row p's next statement updates (0: none).
WaitsFor(p) ==
    LET pc == proc[p].pc
        o == IF pc = "ex_add" THEN proc[p].tw ELSE proc[p].fw
        m == CASE pc = "ex_freeze" -> "freeze_credits"
               [] pc = "ex_deduct" -> "deduct_credits"
               [] pc = "ex_add" -> "add_credits"
               [] OTHER -> "unfreeze_credits"
    IN IF /\ pc \in {"ex_freeze", "ex_deduct", "ex_add", "ex_unfreeze"}
          /\ o.id # 0
          /\ Call(m, o, proc[p].tr.amount).err = ""
       THEN o.id ELSE 0

\* Two transactions each wait for a row the other has locked: the database
\* aborts one.  Its UPDATE raises inside execute_transfer, the handler's own
\* save() raises again in the aborted transaction, the atomic block rolls
\* back and transfer_credits returns the error.
DeadlockAbort(p) ==
    /\ proc[p].atomic
    /\ \E q \in Procs \ {p} :
         /\ proc[q].atomic
         /\ WaitsFor(p) \in DOMAIN wbuf[q]
         /\ WaitsFor(q) \in DOMAIN wbuf[p]
    /\ Rollback(p)
    /\ proc' = [proc EXCEPT ![p].pc = Returned(proc[p]), ![p].atomic = FALSE,
                            ![p].result = "error",
                            ![p].err = "deadlock detected"]
    /\ UNCHANGED <<started, init0, credit_expiry>>

\* the request has returned to its caller; the instances are dropped
Finish(p) ==
    /\ proc[p].pc = "done"
    /\ proc' = [proc EXCEPT ![p] = Idle]
    /\ UNCHANGED <<wallets, txlog, transfers, wbuf, started, init0, credit_expiry, wallet_settings>>

\* ---- initial states and the specification ---------------------------------
\* A wallet starts empty, or after add_credits(InitFund), or after
\* add_credits(InitFund) and freeze_credits(InitFrozen), with the rows those
\* calls leave.
InitShapes == {<<0, 0>>, <<InitFund, 0>>, <<InitFund, InitFrozen>>}
InitRow(owner, s) ==
    [WalletRow(owner, s[1]) EXCEPT !.available = s[1] - s[2], !.frozen = s[2]]
InitLog(s) ==
    (IF s[1] > 0 THEN <<[type |-> "credit", amount |-> s[1],
                         balance_after |-> s[1], source_id |-> "",
                         xact |-> "none"]>>
     ELSE <<>>)
    \o
    (IF s[2] > 0 THEN <<[type |-> "freeze", amount |-> s[2],
                         balance_after |-> s[1], source_id |-> "",
                         xact |-> "none"]>>
     ELSE <<>>)

\* u1 has a funded wallet; u2 has none yet, or one in any of the shapes
InitTables ==
    {<<InitRow("u1", s)>> : s \in InitShapes \ {<<0, 0>>}}
    \cup {<<InitRow("u1", s1), InitRow("u2", s2)>> :
             s1 \in InitShapes \ {<<0, 0>>}, s2 \in InitShapes}

InitWallets ==
    /\ wallets \in InitTables
    /\ txlog = [i \in DOMAIN wallets |->
                 InitLog(<<wallets[i].balance, wallets[i].frozen>>)]
    /\ transfers = <<>>
    /\ wbuf = [p \in Procs |-> EmptyBuf]
    /\ proc = [p \in Procs |-> Idle]
    /\ started = 0
    /\ init0 = wallets

Init ==
    /\ InitWallets
    /\ credit_expiry = <<>>
    /\ wallet_settings = [i \in DOMAIN wallets |-> SettingsRow(i)]

Next ==
    \E p \in Procs :
        \/ \E i \in WalletIds, m \in Methods, a \in Amounts :
             StartCall(p, i, m, a)
        \/ CallSave(p)
        \/ CallCreateTx(p)
        \/ \E u \in Users, e \in Emails, a \in Amounts :
             StartTransfer(p, u, e, a)
        \/ TransferGetTo(p)
        \/ TransferInsertTo(p)
        \/ TransferCreate(p)
        \/ \E t \in DOMAIN transfers : StartExecute(p, t)
        \/ ExecuteLoadWallets(p)
        \/ ExecuteFreeze(p)
        \/ ExecuteFreezeTx(p)
        \/ ExecuteDeduct(p)
        \/ ExecuteDeductTx(p)
        \/ ExecuteAdd(p)
        \/ ExecuteAddTx(p)
        \/ ExecuteComplete(p)
        \/ ExecuteExcept(p)
        \/ ExecuteUnfreeze(p)
        \/ ExecuteUnfreezeTx(p)
        \/ TransferCommit(p)
        \/ DeadlockAbort(p)
        \/ Finish(p)

Spec == Init /\ [][Next]_vars

\* ---- the Wallet Store alone: callers of the four CarbonWallet methods -----
\* amounts a caller can pass to a method, the negative ones included
CallAmounts == (0 - 1)..MaxAmount

NextStore ==
    \E p \in Procs :
        \/ \E i \in WalletIds, m \in Methods, a \in CallAmounts :
             StartCall(p, i, m, a)
        \/ CallSave(p)
        \/ CallCreateTx(p)
        \/ Finish(p)

\* one wallet, in any of the shapes: the methods act on one row
InitStore ==
    /\ wallets \in {<<InitRow("u1", s)>> : s \in InitShapes}
    /\ txlog = [i \in DOMAIN wallets |->
                 InitLog(<<wallets[i].balance, wallets[i].frozen>>)]
    /\ transfers = <<>>
    /\ wbuf = [p \in Procs |-> EmptyBuf]
    /\ proc = [p \in Procs |-> Idle]
    /\ started = 0
    /\ init0 = wallets
    /\ credit_expiry = <<>>
    /\ wallet_settings = [i \in DOMAIN wallets |-> SettingsRow(i)]

SpecStore == InitStore /\ [][NextStore]_vars

\* ---- CreditVerificationService.verify_wallet_balance -----------------------
IsCommitted(row) == row.xact = "none"
CommittedLog(i) == SelectSeq(txlog[i], IsCommitted)

RECURSIVE SumAmounts(_)
SumAmounts(log) ==
    IF log = <<>> THEN 0 ELSE Head(log).amount + SumAmounts(Tail(log))

Abs(x) == IF x < 0 THEN 0 - x ELSE x

\* difference < 0.0001, which is one unit
verify_wallet_balance(i) ==
    Abs(SumAmounts(CommittedLog(i)) - wallets[i].balance) < 1

\* ---- what the claims speak of ----------------------------------------------
RECURSIVE SumBalances(_)
SumBalances(rows) ==
    IF rows = <<>> THEN 0
    ELSE (IF Head(rows).xact = "none" THEN Head(rows).balance ELSE 0)
         + SumBalances(Tail(rows))

ConsistentRow(r) ==
    /\ r.balance = r.available + r.frozen
    /\ r.balance >= 0 /\ r.available >= 0 /\ r.frozen >= 0

\* p's request has returned and was a transfer_credits call that created a
\* Transfer record
TransferDone(p) ==
    /\ proc[p].pc = "done" /\ proc[p].req = "transfer" /\ proc[p].tr.id # 0
    /\ transfers[proc[p].tr.id].xact = "none"
CallDone(p, m) ==
    proc[p].pc = "done" /\ proc[p].req = "call" /\ proc[p].method = m
NameErrorText == "name 'timezone' is not defined"
\* the debit and the credit of p's transfer were both made
Credited(p) == proc[p].err = NameErrorText

\* C1: every stored wallet row, committed or written inside an open
\* transaction, has balance = available_balance + frozen_balance and no
\* negative field, whatever the interleaving of the operations.
C1_BalanceInvariant ==
    /\ \A i \in WalletIds : ConsistentRow(wallets[i])
    /\ \A p \in Procs : \A i \in DOMAIN wbuf[p] : ConsistentRow(wbuf[p][i])

\* a committed wallet that holds frozen credits after a transfer debited it
\* and released its reservation
C1_Witness ==
    \E i \in WalletIds :
        /\ wallets[i].xact = "none" /\ wallets[i].frozen > 0
        /\ \E k \in DOMAIN txlog[i] : txlog[i][k].type = "debit"
        /\ \E k \in DOMAIN txlog[i] : txlog[i][k].type = "unfreeze"
        /\ \E t \in DOMAIN transfers : transfers[t].from = i

\* C2: a transfer stored as completed took its amount from the source's
\* balance and gave it to the destination's, so the sum is unchanged.
C2_CompletedConserves ==
    \A p \in Procs :
        (TransferDone(p) /\ ~proc[p].overlap
         /\ transfers[proc[p].tr.id].status = "completed")
        => /\ wallets[proc[p].fw0.id].balance
                = proc[p].fw0.balance - proc[p].amount
           /\ wallets[proc[p].tw0.id].balance
                = proc[p].tw0.balance + proc[p].amount

C2_Witness ==
    \E t \in DOMAIN transfers : transfers[t].status = "completed"

\* C3: after a transfer that ended failed, the source's and the
\* destination's balance are what they were before the attempt.
C3_FailedTransferRestores ==
    \A p \in Procs :
        (TransferDone(p) /\ ~proc[p].overlap
         /\ transfers[proc[p].tr.id].status = "failed")
        => /\ wallets[proc[p].fw0.id].balance = proc[p].fw0.balance
           /\ wallets[proc[p].tw0.id].balance = proc[p].tw0.balance

\* C4: of two overlapping deduct_credits(W, x) calls that both found
\* available_balance = x, exactly one succeeds; available_balance is not
\* negative and balance ends lower by x.
C4_OneDeductSucceeds ==
    \A p, q \in Procs :
        (/\ p # q
         /\ CallDone(p, "deduct_credits") /\ CallDone(q, "deduct_credits")
         /\ proc[p].overlap /\ proc[q].overlap
         /\ proc[p].fw0 = proc[q].fw0
         /\ proc[p].amount = proc[q].amount
         /\ proc[p].amount > 0
         /\ proc[p].fw0.available = proc[p].amount)
        => /\ (proc[p].result = "ok") # (proc[q].result = "ok")
           /\ wallets[proc[p].fw0.id].available >= 0
           /\ wallets[proc[p].fw0.id].balance
                = proc[p].fw0.balance - proc[p].amount

\* C5: after two overlapping transfers from the same source wallet (the
\* only requests made), the balances sum to what they summed to before and
\* the source's balance is lower by the amounts credited to a destination.
C5_ConcurrentTransfersConserve ==
    \A p, q \in Procs :
        (/\ p # q /\ started = 2
         /\ TransferDone(p) /\ TransferDone(q)
         /\ proc[p].overlap /\ proc[q].overlap
         /\ proc[p].tr.from = proc[q].tr.from
         /\ proc[p].tr.from # proc[p].tr.to
         /\ proc[q].tr.from # proc[q].tr.to)
        => /\ SumBalances(wallets) = SumBalances(init0)
           /\ wallets[proc[p].tr.from].balance
                = init0[proc[p].tr.from].balance
                  - (IF Credited(p) THEN proc[p].amount ELSE 0)
                  - (IF Credited(q) THEN proc[q].amount ELSE 0)

\* C6: in every state the committed balance of a wallet is the
\* balance_after of its newest committed Transaction row (zero when it has
\* none): a field change and its row are never seen apart.
C6_MutationAndRowTogether ==
    \A i \in WalletIds :
        wallets[i].xact = "none"
        => wallets[i].balance
             = (IF CommittedLog(i) = <<>> THEN 0
                ELSE CommittedLog(i)[Len(CommittedLog(i))].balance_after)

\* C7: when a successful add_credits, freeze_credits, unfreeze_credits or
\* deduct_credits call has returned, and nothing ran beside it, the amounts
\* of the wallet's rows sum to its balance: verify_wallet_balance is true.
C7_LogSumsToBalance ==
    \A p \in Procs :
        (/\ proc[p].pc = "done" /\ proc[p].req = "call"
         /\ proc[p].result = "ok" /\ ~proc[p].overlap
         /\ transfers = <<>>)
        => verify_wallet_balance(proc[p].fw.id)

\* C8: a transfer of x > 0 from A to another wallet B with
\* A.available_balance >= x ends completed, with A.balance lower by x and
\* B.balance higher by x.
C8_TransferSucceeds ==
    \A p \in Procs :
        (/\ TransferDone(p) /\ ~proc[p].overlap
         /\ proc[p].amount > 0
         /\ proc[p].fw0.id # proc[p].tw0.id
         /\ proc[p].fw0.available >= proc[p].amount)
        => /\ transfers[proc[p].tr.id].status = "completed"
           /\ wallets[proc[p].fw0.id].balance
                = proc[p].fw0.balance - proc[p].amount
           /\ wallets[proc[p].tw0.id].balance
                = proc[p].tw0.balance + proc[p].amount

\* C9: a transfer of x from a wallet whose available_balance is below x
\* ends failed with the reason "Insufficient available credits"; when
\* nothing ran beside it, the source's and the destination's balance are
\* what they were before.
C9_InsufficientTransferFails ==
    \A p \in Procs :
        (TransferDone(p) /\ proc[p].fw0.available < proc[p].amount)
        => /\ transfers[proc[p].tr.id].status = "failed"
           /\ transfers[proc[p].tr.id].failure_reason
                = "Insufficient available credits"
           /\ ~proc[p].overlap
              => /\ wallets[proc[p].fw0.id].balance = proc[p].fw0.balance
                 /\ wallets[proc[p].tw0.id].balance = proc[p].tw0.balance

\* such a transfer has returned, from a source that also held frozen
\* credits enough for the compensating unfreeze to act
C9_Witness ==
    \E p \in Procs :
        /\ TransferDone(p) /\ ~proc[p].overlap
        /\ proc[p].fw0.available < proc[p].amount
        /\ proc[p].fw0.frozen >= proc[p].amount
        /\ proc[p].fw0.balance > 0

\* C10: execute_transfer on a stored transfer that is not pending is
\* rejected as not pending and changes neither the transfer's status nor
\* a field of the two wallets.
C10_NonPendingUntouched ==
    \A p \in Procs :
        (/\ proc[p].pc = "done" /\ proc[p].req = "execute"
         /\ ~proc[p].overlap /\ proc[p].status0 # "pending")
        => /\ proc[p].err = "Transfer is not in pending status"
           /\ transfers[proc[p].tr.id].status = proc[p].status0
           /\ Load(p, proc[p].tr.from) = proc[p].fw0
           /\ Load(p, proc[p].tr.to) = proc[p].tw0

\* ---- CreditExpiry and SmartContractService.process_credit_expiry ----------
MaxRecords == 2
\* amounts of the expiry records: one a wallet can pay twice over, one it
\* can pay once at most
ExpiryAmounts == {MaxAmount, InitFund - 1}

\* CreditExpiry row.  due stands for expiry_date <= now; deductions is no
\* column: it counts the deduct_credits calls saved for the record.
ExpiryRow(w, amount, due) ==
    [wallet |-> w, amount |-> amount, due |-> due,
     is_expired |-> FALSE, processed |-> FALSE, deductions |-> 0]

\* in-memory CreditExpiry instances of all rows, in the table's order
ExpiryInstances ==
    [k \in DOMAIN credit_expiry |->
       [id |-> k, wallet |-> credit_expiry[k].wallet,
        amount |-> credit_expiry[k].amount, due |-> credit_expiry[k].due,
        is_expired |-> credit_expiry[k].is_expired,
        processed |-> credit_expiry[k].processed]]

IsDue(e) == e.due /\ ~e.processed /\ ~e.is_expired
\* CreditExpiry.objects.filter(expiry_date__lte=now, processed=False,
\*                             is_expired=False)
ExpiryQuery == SelectSeq(ExpiryInstances, IsDue)

\* process_expiry returned False: the loop goes to the next record
Skipped(r) ==
    [r EXCEPT !.idx = @ + 1, !.pc = "xp_next", !.fw = NoWallet, !.tx = NoTx]

\* An except clause that leaves the loop.
Caught_LeavesLoop(r, msg) ==
    [r EXCEPT !.idx = Len(r.batch) + 1, !.pc = "xp_next", !.err = msg,
              !.fw = NoWallet, !.tx = NoTx]

\* except Exception as e: logger.error(...); the loop goes to the next record
Caught(r, msg) ==
    [r EXCEPT !.idx = @ + 1, !.pc = "xp_next", !.err = msg,
              !.fw = NoWallet, !.tx = NoTx]

\* process_credit_expiry begins: the query is evaluated for the loop
StartExpiryRun(p) ==
    /\ Begin(p, [Idle EXCEPT !.req = "expiry", !.pc = "xp_next",
                             !.batch = ExpiryQuery, !.idx = 1,
                             !.store0 = wallets])
    /\ UNCHANGED <<wallets, txlog, transfers, wbuf, init0, credit_expiry, wallet_settings>>

\* process_expiry on the next instance: its flags, then self.wallet (fetched
\* now) and the comparison of wallet.balance with the amount
ExpiryCheck(p) ==
    LET e == proc[p].batch[proc[p].idx]
        w == Load(p, e.wallet)
    IN
    /\ proc[p].pc = "xp_next"
    /\ proc[p].idx <= Len(proc[p].batch)
    /\ proc' = [proc EXCEPT ![p] =
                  IF e.processed \/ e.is_expired THEN Skipped(@)
                  ELSE IF w.balance >= e.amount
                       THEN [@ EXCEPT !.pc = "xp_deduct", !.fw = w]
                       ELSE Skipped(@)]
    /\ UNCHANGED <<wallets, txlog, transfers, wbuf, started, init0, credit_expiry, wallet_settings>>

\* self.wallet.deduct_credits(self.amount, ...): its checks and its save()
ExpiryDeduct(p) ==
    LET e == proc[p].batch[proc[p].idx]
        r == deduct_credits(proc[p].fw, e.amount)
    IN
    /\ proc[p].pc = "xp_deduct"
    /\ IF r.err # ""
       THEN /\ proc' = [proc EXCEPT ![p] = Caught(@, r.err)]
            /\ UNCHANGED <<wallets, wbuf, credit_expiry>>
       ELSE /\ SaveWallet(p, r.obj)
            /\ proc' = [proc EXCEPT ![p].pc = "xp_deduct_tx",
                                    ![p].fw = r.obj, ![p].tx = r.tx]
            /\ credit_expiry' = [credit_expiry EXCEPT ![e.id].deductions = @ + 1]
    /\ UNCHANGED <<txlog, transfers, started, init0, wallet_settings>>

\* deduct_credits' WalletTransaction.objects.create
ExpiryDeductTx(p) ==
    /\ proc[p].pc = "xp_deduct_tx"
    /\ CreateTx(p, proc[p].fw.id, proc[p].tx)
    /\ proc' = [proc EXCEPT ![p].pc = "xp_mark"]
    /\ UNCHANGED <<wallets, transfers, wbuf, started, init0, credit_expiry, wallet_settings>>

\* self.is_expired = True; self.processed = True;
\* self.processed_at = timezone.now(): wallet_models.py imports no
\* `timezone`, so this raises NameError before self.save() is reached, and
\* process_credit_expiry's except clause catches it.
ExpiryMark(p) ==
    /\ proc[p].pc = "xp_mark"
    /\ proc' = [proc EXCEPT ![p] =
                  Caught([@ EXCEPT !.batch[proc[p].idx].is_expired = TRUE,
                                   !.batch[proc[p].idx].processed = TRUE],
                         "name 'timezone' is not defined")]
    /\ UNCHANGED <<wallets, txlog, transfers, wbuf, started, init0, credit_expiry, wallet_settings>>

\* the loop is over: return expired_credits
ExpiryReturn(p) ==
    /\ proc[p].pc = "xp_next"
    /\ proc[p].idx > Len(proc[p].batch)
    /\ proc' = [proc EXCEPT ![p].pc = "done", ![p].result = "ok"]
    /\ UNCHANGED <<wallets, txlog, transfers, wbuf, started, init0, credit_expiry, wallet_settings>>

\* one to MaxRecords expiry records, on any of the wallets
ExpiryRows(ids) ==
    {ExpiryRow(w, a, d) : w \in ids, a \in ExpiryAmounts, d \in BOOLEAN}
ExpiryTables(ids) ==
    UNION {[1..n -> ExpiryRows(ids)] : n \in 1..MaxRecords}

InitExpiry ==
    /\ InitWallets
    /\ credit_expiry \in ExpiryTables(DOMAIN wallets)
    /\ wallet_settings = [i \in DOMAIN wallets |-> SettingsRow(i)]

NextExpiry ==
    \E p \in Procs :
        \/ StartExpiryRun(p)
        \/ ExpiryCheck(p)
        \/ ExpiryDeduct(p)
        \/ ExpiryDeductTx(p)
        \/ ExpiryMark(p)
        \/ ExpiryReturn(p)
        \/ Finish(p)

SpecExpiry == InitExpiry /\ [][NextExpiry]_vars

\* ---- WalletSettings and SmartContractService.process_auto_transfers ------
\* auto_transfer_threshold as the settings view stores it (0 is the default)
Thresholds == 0..MaxAmount
\* auto_transfer_recipient: a user, or "" for NULL
Recipients == Users \cup {""}

\* in-memory WalletSettings instances of all rows, in the table's order
SettingsInstances ==
    [k \in DOMAIN wallet_settings |->
       [id |-> k, wallet |-> wallet_settings[k].wallet,
        enabled |-> wallet_settings[k].auto_transfer_enabled,
        threshold |-> wallet_settings[k].auto_transfer_threshold,
        recipient |-> wallet_settings[k].auto_transfer_recipient,
        xact |-> wallet_settings[k].xact]]

IsEnabled(s) == s.enabled /\ s.xact = "none"
\* WalletSettings.objects.filter(auto_transfer_enabled=True)
SettingsQuery == SelectSeq(SettingsInstances, IsEnabled)

\* The loop leaving at the first transfer that does not succeed.
NextSettings_StopsOnFailure(r) ==
    [r EXCEPT !.idx = IF r.result = "error" THEN Len(r.batch) + 1 ELSE @ + 1,
              !.pc = "at_next", !.sw = NoWallet,
              !.fw = NoWallet, !.tw = NoWallet, !.tr = NoTransfer,
              !.fw0 = NoWallet, !.tw0 = NoWallet, !.status0 = "",
              !.tx = NoTx, !.err = "", !.result = "", !.amount = 0,
              !.fromUser = "", !.toEmail = ""]

\* the loop goes to the next settings row; the objects of this one are dropped
NextSettings(r) ==
    [r EXCEPT !.idx = @ + 1, !.pc = "at_next", !.sw = NoWallet,
              !.fw = NoWallet, !.tw = NoWallet, !.tr = NoTransfer,
              !.fw0 = NoWallet, !.tw0 = NoWallet, !.status0 = "",
              !.tx = NoTx, !.err = "", !.result = "", !.amount = 0,
              !.fromUser = "", !.toEmail = ""]

\* process_auto_transfers begins (the management command
\* process_smart_contracts runs it, one run after the other): the query is
\* evaluated for the loop
StartAutoRun(p) ==
    /\ \A q \in Procs : ~Busy(q)
    /\ Begin(p, [Idle EXCEPT !.req = "auto", !.pc = "at_next",
                             !.batch = SettingsQuery, !.idx = 1,
                             !.store0 = wallets])
    /\ UNCHANGED <<wallets, txlog, transfers, wbuf, init0, credit_expiry, wallet_settings>>

\* wallet = settings.wallet (fetched now); the threshold and recipient tests
AutoCheck(p) ==
    LET s == proc[p].batch[proc[p].idx]
        w == Load(p, s.wallet)
    IN
    /\ proc[p].pc = "at_next"
    /\ proc[p].idx <= Len(proc[p].batch)
    /\ proc' = [proc EXCEPT ![p] =
                  IF w.available >= s.threshold /\ s.recipient # ""
                  THEN [@ EXCEPT !.pc = "at_call", !.sw = w,
                                 !.fromUser = wallets[s.wallet].owner,
                                 !.toEmail = s.recipient,
                                 !.amount = s.threshold]
                  ELSE NextSettings(@)]
    /\ UNCHANGED <<wallets, txlog, transfers, wbuf, started, init0, credit_expiry, wallet_settings>>

\* WalletService.transfer_credits(from_user=wallet.owner, ...) is entered
AutoCall(p) ==
    /\ proc[p].pc = "at_call"
    /\ proc' = [proc EXCEPT ![p] = EnterTransfer(p, @)]
    /\ UNCHANGED <<wallets, txlog, transfers, wbuf, started, init0, credit_expiry, wallet_settings>>

\* if result['success']: processed_transfers.append({... transfer_id})
AutoResult(p) ==
    /\ proc[p].pc = "at_result"
    /\ proc' = [proc EXCEPT ![p] =
                  NextSettings([@ EXCEPT !.out = IF proc[p].result = "ok"
                                                THEN Append(@, proc[p].tr.id)
                                                ELSE @])]
    /\ UNCHANGED <<wallets, txlog, transfers, wbuf, started, init0, credit_expiry, wallet_settings>>

\* the loop is over: return processed_transfers
AutoReturn(p) ==
    /\ proc[p].pc = "at_next"
    /\ proc[p].idx > Len(proc[p].batch)
    /\ proc' = [proc EXCEPT ![p].pc = "done", ![p].result = "ok"]
    /\ UNCHANGED <<wallets, txlog, transfers, wbuf, started, init0, credit_expiry, wallet_settings>>

\* a wallet's settings: as created, or auto-transfer switched on with any
\* threshold and recipient
SettingsChoices(i) ==
    {SettingsRow(i)}
    \cup {[SettingsRow(i) EXCEPT !.auto_transfer_enabled = TRUE,
                                 !.auto_transfer_threshold = t,
                                 !.auto_transfer_recipient = r] :
             t \in Thresholds, r \in Recipients}

InitAuto ==
    /\ InitWallets
    /\ credit_expiry = <<>>
    /\ wallet_settings \in
         {s \in [DOMAIN wallets ->
                   UNION {SettingsChoices(i) : i \in DOMAIN wallets}] :
             \A i \in DOMAIN wallets : s[i].wallet = i}

NextAuto ==
    \E p \in Procs :
        \/ StartAutoRun(p)
        \/ AutoCheck(p)
        \/ AutoCall(p)
        \/ TransferGetTo(p)
        \/ TransferInsertTo(p)
        \/ TransferCreate(p)
        \/ ExecuteFreeze(p)
        \/ ExecuteFreezeTx(p)
        \/ ExecuteDeduct(p)
        \/ ExecuteDeductTx(p)
        \/ ExecuteAdd(p)
        \/ ExecuteAddTx(p)
        \/ ExecuteComplete(p)
        \/ ExecuteExcept(p)
        \/ ExecuteUnfreeze(p)
        \/ ExecuteUnfreezeTx(p)
        \/ TransferCommit(p)
        \/ AutoResult(p)
        \/ AutoReturn(p)
        \/ Finish(p)

SpecAuto == InitAuto /\ [][NextAuto]_vars

\* ---- the expiry processor (claims C11 to C14) --------------------------------
\* p's process_credit_expiry run has returned and no other request ran
\* beside it
ExpiryRunAlone(p) ==
    proc[p].pc = "done" /\ proc[p].req = "expiry" /\ ~proc[p].overlap

\* the records of p's run lie on different wallets, so each record met its
\* wallet as it was when the run began
OnDistinctWallets(p) ==
    \A j, k \in DOMAIN proc[p].batch :
        j # k => proc[p].batch[j].wallet # proc[p].batch[k].wallet

InitLogOf(i) == InitLog(<<init0[i].balance, init0[i].frozen>>)

\* C11: a second process_credit_expiry run, made right after the first
\* has returned, changes no wallet balance, and no record has caused more
\* than one deduction.
C11_SecondRunChangesNothing ==
    \A p \in Procs :
        (ExpiryRunAlone(p) /\ started = 2)
        => /\ \A i \in DOMAIN proc[p].store0 :
                wallets[i].balance = proc[p].store0[i].balance
           /\ \A k \in DOMAIN credit_expiry : credit_expiry[k].deductions <= 1

\* C12: while and after two process_credit_expiry runs overlap, no
\* ExpiryRecord has caused more than one deduction from its wallet.
C12_NoRecordProcessedTwice ==
    \A p, q \in Procs :
        (/\ p # q
         /\ proc[p].req = "expiry" /\ proc[q].req = "expiry"
         /\ proc[p].overlap /\ proc[q].overlap)
        => \A k \in DOMAIN credit_expiry : credit_expiry[k].deductions <= 1

\* C13: after one run alone, a record is stored as processed exactly when
\* a deduction was made for it, and every due record whose wallet had
\* balance >= amount has taken exactly its amount from the wallet and is
\* stored with is_expired and processed true.
C13_DueRecordDeductedAndMarked ==
    \A p \in Procs :
        (ExpiryRunAlone(p) /\ started = 1 /\ OnDistinctWallets(p))
        => /\ \A k \in DOMAIN credit_expiry :
                credit_expiry[k].processed
                    <=> (credit_expiry[k].deductions > 0)
           /\ \A j \in DOMAIN proc[p].batch :
                LET e == proc[p].batch[j] IN
                proc[p].store0[e.wallet].balance >= e.amount
                => /\ wallets[e.wallet].balance
                        = proc[p].store0[e.wallet].balance - e.amount
                   /\ credit_expiry[e.id].is_expired
                   /\ credit_expiry[e.id].processed

\* C14: after one run alone, a due record whose wallet's balance was below
\* its amount is stored unprocessed and unexpired, with its wallet's row
\* and log unchanged; and whatever was skipped or failed, every record of
\* the run whose wallet could pay it has had its amount deducted.
C14_SkipKeepsBatchGoing ==
    \A p \in Procs :
        (ExpiryRunAlone(p) /\ started = 1 /\ OnDistinctWallets(p))
        => \A j \in DOMAIN proc[p].batch :
              LET e == proc[p].batch[j]
                  w0 == proc[p].store0[e.wallet]
              IN
              /\ w0.balance < e.amount
                 => /\ ~credit_expiry[e.id].processed
                    /\ ~credit_expiry[e.id].is_expired
                    /\ wallets[e.wallet] = w0
                    /\ txlog[e.wallet] = InitLogOf(e.wallet)
              /\ w0.available >= e.amount
                 => wallets[e.wallet].balance = w0.balance - e.amount

\* a run has skipped its first record for lack of balance and deducted its
\* second
C14_Witness ==
    \E p \in Procs :
        /\ ExpiryRunAlone(p) /\ started = 1
        /\ Len(proc[p].batch) = 2
        /\ proc[p].batch[1].wallet # proc[p].batch[2].wallet
        /\ proc[p].store0[proc[p].batch[1].wallet].balance
             < proc[p].batch[1].amount
        /\ wallets[proc[p].batch[2].wallet].balance
             = proc[p].store0[proc[p].batch[2].wallet].balance
               - proc[p].batch[2].amount

\* ---- the auto-transfer processor (claims C15 and C16) ------------------------
\* the transfers of a source wallet
AttemptsFrom(i) == {t \in DOMAIN transfers : transfers[t].from = i}

\* p's process_auto_transfers run, the first request, has returned
AutoRunDone(p) ==
    proc[p].pc = "done" /\ proc[p].req = "auto" /\ started = 1

\* C15: when the transfer made for a wallet with auto-transfer enabled, a
\* recipient (another user) and available_balance >= threshold > 0 has
\* returned, it is stored completed, the wallet's balance is lower by the
\* threshold and the recipient's wallet's higher by it; and after a run, a
\* wallet whose available_balance was below its threshold, and that is no
\* recipient's wallet, is unchanged.
C15_AutoTransferMoves ==
    \A p \in Procs :
        /\ (proc[p].req = "auto" /\ proc[p].pc = "at_result"
            /\ proc[p].amount > 0
            /\ proc[p].toEmail # proc[p].fromUser)
           => /\ proc[p].tr.id # 0
              /\ transfers[proc[p].tr.id].status = "completed"
              /\ wallets[proc[p].sw.id].balance
                   = proc[p].sw.balance - proc[p].amount
              /\ wallets[proc[p].tw0.id].balance
                   = proc[p].tw0.balance + proc[p].amount
        /\ AutoRunDone(p)
           => \A j \in DOMAIN proc[p].batch :
                LET s == proc[p].batch[j] IN
                (/\ proc[p].store0[s.wallet].available < s.threshold
                 /\ \A k \in DOMAIN proc[p].batch :
                       proc[p].batch[k].recipient
                           # proc[p].store0[s.wallet].owner)
                => wallets[s.wallet] = proc[p].store0[s.wallet]

Rejected(m, w, amount) ==
    IF amount <= 0 THEN TRUE
    ELSE IF m \in {"freeze_credits", "deduct_credits"}
         THEN w.available < amount
         ELSE IF m = "unfreeze_credits" THEN w.frozen < amount ELSE FALSE

\* p's method call has returned and no other request ran beside it
CallAlone(p) ==
    proc[p].pc = "done" /\ proc[p].req = "call" /\ ~proc[p].overlap

\* C17: a rejected Wallet Store call (amount <= 0; freeze_credits or
\* deduct_credits with available_balance < amount; unfreeze_credits with
\* frozen_balance < amount) raises, and leaves the wallet's three balances
\* and its transaction log exactly as they were before the call.
C17_RejectedCallNoEffect ==
    \A p \in Procs :
        (CallAlone(p) /\ Rejected(proc[p].method, proc[p].fw0, proc[p].amount))
        => /\ proc[p].result = "error"
           /\ Load(p, proc[p].fw0.id) = proc[p].fw0
           /\ txlog[proc[p].fw0.id] = proc[p].log0

\* an unfreeze_credits of more than is frozen, on a wallet that holds frozen
\* credits and has rows, was rejected
C17_Witness ==
    \E p \in Procs :
        /\ CallAlone(p) /\ proc[p].method = "unfreeze_credits"
        /\ proc[p].amount > 0
        /\ proc[p].fw0.frozen > 0 /\ proc[p].fw0.frozen < proc[p].amount
        /\ proc[p].log0 # <<>>
        /\ proc[p].err = "Insufficient frozen credits"

\* C18: add_credits with amount > 0 raises balance and available_balance by
\* exactly amount, leaves frozen_balance alone and appends one credit row
\* with amount = +amount and balance_after = the new balance; with
\* amount <= 0 it fails with "Amount must be positive".
C18_AddCredits ==
    \A p \in Procs :
        (CallAlone(p) /\ proc[p].method = "add_credits")
        => IF proc[p].amount > 0
           THEN /\ proc[p].result = "ok"
                /\ Load(p, proc[p].fw0.id)
                     = [proc[p].fw0 EXCEPT
                          !.balance = @ + proc[p].amount,
                          !.available = @ + proc[p].amount]
                /\ txlog[proc[p].fw0.id]
                     = Append(proc[p].log0,
                              [type |-> "credit", amount |-> proc[p].amount,
                               balance_after |->
                                   proc[p].fw0.balance + proc[p].amount,
                               source_id |-> "", xact |-> "none"])
           ELSE /\ proc[p].result = "error"
                /\ proc[p].err = "Amount must be positive"

\* add_credits of a positive amount has returned on a wallet that holds
\* frozen credits
C18_Witness ==
    \E p \in Procs :
        /\ CallAlone(p) /\ proc[p].method = "add_credits"
        /\ proc[p].amount > 0 /\ proc[p].fw0.frozen > 0
        /\ proc[p].result = "ok"

\* C19: deduct_credits with 0 < amount <= available_balance lowers balance
\* and available_balance by exactly amount and leaves frozen_balance alone
\* (only available credits are drawn on); with amount > available_balance
\* it fails, also when balance >= amount.
C19_DeductCredits ==
    \A p \in Procs :
        (CallAlone(p) /\ proc[p].method = "deduct_credits"
         /\ proc[p].amount > 0)
        => IF proc[p].amount <= proc[p].fw0.available
           THEN /\ proc[p].result = "ok"
                /\ Load(p, proc[p].fw0.id)
                     = [proc[p].fw0 EXCEPT
                          !.balance = @ - proc[p].amount,
                          !.available = @ - proc[p].amount]
           ELSE /\ proc[p].result = "error"
                /\ proc[p].err = "Insufficient available credits"
                /\ Load(p, proc[p].fw0.id) = proc[p].fw0

\* a deduct_credits of more than is available, yet no more than the
\* balance, has been refused
C19_Witness ==
    \E p \in Procs :
        /\ CallAlone(p) /\ proc[p].method = "deduct_credits"
        /\ proc[p].amount > proc[p].fw0.available
        /\ proc[p].amount <= proc[p].fw0.balance
        /\ proc[p].result = "error"

\* the second of two requests is unfreeze_credits(w, x), made after a
\* successful freeze_credits(w, x) (the first request) had returned
FreezeThenUnfreeze(p) ==
    LET i == proc[p].fw0.id IN
    /\ CallAlone(p) /\ proc[p].method = "unfreeze_credits"
    /\ started = 2
    /\ Len(proc[p].log0) = Len(InitLog(<<init0[i].balance, init0[i].frozen>>)) + 1
    /\ proc[p].log0[Len(proc[p].log0)].type = "freeze"
    /\ proc[p].log0[Len(proc[p].log0)].amount = proc[p].amount

\* C20: for 0 < x <= available_balance, freeze_credits(w, x) followed by
\* unfreeze_credits(w, x) succeeds and puts available_balance and
\* frozen_balance back to their values before the freeze; balance is the
\* same before the freeze, between the two and after the unfreeze.
C20_FreezeUnfreezeRestores ==
    \A p \in Procs :
        FreezeThenUnfreeze(p)
        => /\ proc[p].result = "ok"
           /\ wallets[proc[p].fw0.id].available
                = init0[proc[p].fw0.id].available
           /\ wallets[proc[p].fw0.id].frozen = init0[proc[p].fw0.id].frozen
           /\ proc[p].fw0.balance = init0[proc[p].fw0.id].balance
           /\ wallets[proc[p].fw0.id].balance = init0[proc[p].fw0.id].balance

\* the pair has run on a wallet that already held other frozen credits
C20_Witness ==
    \E p \in Procs :
        /\ FreezeThenUnfreeze(p)
        /\ init0[proc[p].fw0.id].frozen > 0
        /\ proc[p].fw0.frozen > proc[p].amount

\* ---- WalletService.get_or_create_wallet (claim C23) ---------------------------
\* the committed wallet rows of one owner and one kind
WalletsOf(owner, kind) ==
    {i \in WalletIds : /\ wallets[i].xact = "none"
                       /\ wallets[i].owner = owner
                       /\ wallets[i].kind = kind}

\* C23: at most one wallet exists per (owner, kind) pair, also after two
\* concurrent get_or_create_wallet calls for the same owner and kind: both
\* obtain the same wallet, and no second row is inserted.
C23_OneWalletPerOwnerKind ==
    \A u \in Users : Cardinality(WalletsOf(u, "employee")) <= 1

\* ---- transaction hashes (claim C21) --------------------------------------------
\* hashlib.sha256(text.encode()).hexdigest(): the digest of a text, equal for
\* equal texts only
sha256(text) == [digest_of |-> text]

\* The instant a row was inserted: the rows of a wallet are inserted one
\* after the other, so the instant of the k-th is k.  auto_now_add stores it
\* as created_at, and time.time() in save() reads the same clock.
created_at(i, k) == k

\* WalletTransaction.save on INSERT (transaction_hash is empty):
\* f"{self.wallet.id}{self.transaction_type}{self.amount}{time.time()}",
\* the four values written one after the other
hash_data(i, k) ==
    <<ToString(i), txlog[i][k].type, ToString(txlog[i][k].amount),
      ToString(created_at(i, k))>>
\* the transaction_hash column, written once, by the INSERT
transaction_hash(i, k) == sha256(hash_data(i, k))

\* json.dumps(transaction_data, sort_keys=True, default=str): the six keys in
\* sorted order, each followed by its value.  The callers of the four
\* methods pass neither source nor destination, so both are None.
generate_transaction_hash(i, k) ==
    sha256(<<"amount", ToString(txlog[i][k].amount),
             "created_at", ToString(created_at(i, k)),
             "destination", "null",
             "source", "null",
             "transaction_type", txlog[i][k].type,
             "wallet_id", ToString(i)>>)

verify_transaction_integrity(i, k) ==
    generate_transaction_hash(i, k) = transaction_hash(i, k)

\* C21: verify_transaction_integrity returns true for every Transaction
\* immediately after add_credits, freeze_credits, unfreeze_credits or
\* deduct_credits has created it: the recomputed hash equals the stored one.
C21_NewRowVerifies ==
    \A p \in Procs :
        (CallAlone(p) /\ proc[p].result = "ok")
        => /\ Len(txlog[proc[p].fw0.id]) = Len(proc[p].log0) + 1
           /\ verify_transaction_integrity(proc[p].fw0.id,
                                           Len(txlog[proc[p].fw0.id]))

\* ---- WalletService.add_credits and validate_transfer_rules -------------------
\* source_id=None (written ""), or the str(trip.id) the trip rewards pass
SourceIds == {"", "trip-1"}

\* try: wallet, _ = WalletService.get_or_create_wallet(user): the SELECT of
\* get_or_create; an exception is caught and returned as success: False
StartAddCredits(p, user, amount, source_id) ==
    LET m == Matches(p, user, FALSE)
        r == [Idle EXCEPT !.req = "add", !.method = "add_credits",
                          !.fromUser = user, !.amount = amount,
                          !.source_id = source_id] IN
    /\ Begin(p, IF m = {} THEN [r EXCEPT !.pc = "ac_insert"]
                ELSE IF Cardinality(m) = 1
                     THEN [r EXCEPT !.pc = "call",
                                    !.fw = Load(p, TheOne(m)),
                                    !.fw0 = Load(p, TheOne(m)),
                                    !.log0 = txlog[TheOne(m)]]
                     ELSE [r EXCEPT !.pc = "done", !.result = "error",
                                    !.err = "MultipleObjectsReturned"])
    /\ UNCHANGED <<wallets, txlog, transfers, wbuf, init0, credit_expiry, wallet_settings>>

\* the INSERT of get_or_create_wallet and, the wallet being created, the
\* INSERT of its WalletSettings; outside a transaction both commit at once
AddInsertWallet(p) ==
    /\ proc[p].pc = "ac_insert"
    /\ wallets' = Append(wallets, WalletRow(proc[p].fromUser, 0))
    /\ txlog' = Append(txlog, <<>>)
    /\ wallet_settings' = Append(wallet_settings, SettingsRow(Len(wallets) + 1))
    /\ proc' = [proc EXCEPT ![p].pc = "call",
                            ![p].fw = [NoWallet EXCEPT !.id = Len(wallets) + 1],
                            ![p].fw0 = [NoWallet EXCEPT !.id = Len(wallets) + 1]]
    /\ UNCHANGED <<transfers, wbuf, started, init0, credit_expiry>>

\* if source_id: transaction_record.source_id = source_id;
\* transaction_record.save(): an UPDATE of the row add_credits has inserted
\* (its transaction_hash is set, so save() leaves the hash alone)
AddSourceId(p) ==
    /\ proc[p].pc = "ac_source"
    /\ txlog' = [txlog EXCEPT ![proc[p].fw.id][proc[p].txk].source_id =
                                  proc[p].source_id]
    /\ proc' = [proc EXCEPT ![p].pc = "done"]
    /\ UNCHANGED <<wallets, transfers, wbuf, started, init0, credit_expiry, wallet_settings>>

\* rules['minimum_transfer'] = Decimal('0.0001'), one unit
minimum_transfer == 1

\* SmartContractService.validate_transfer_rules: below the minimum it returns
\* valid: False with the reason; for any other amount the daily-limit query
\* evaluates models.Sum('amount'), and wallet_service.py imports no name
\* "models", so the call raises NameError before the query is sent and
\* before either return statement that follows
validate_transfer_rules(from_wallet, to_wallet, amount) ==
    IF amount < minimum_transfer
    THEN [result |-> "invalid",
          reason |-> "Minimum transfer amount is 0.0001 credits"]
    ELSE [result |-> "raised", reason |-> "name 'models' is not defined"]

\* a caller invokes validate_transfer_rules on two wallets it selected
ValidateTransfer(p, i, j, amount) ==
    LET v == validate_transfer_rules(Load(p, i), Load(p, j), amount) IN
    /\ i \in WalletIds /\ j \in WalletIds
    /\ wallets[i].xact = "none" /\ wallets[j].xact = "none"
    /\ Begin(p, [Idle EXCEPT !.pc = "done", !.req = "validate",
                             !.amount = amount,
                             !.fw = Load(p, i), !.tw = Load(p, j),
                             !.result = v.result, !.err = v.reason,
                             !.store0 = wallets])
    /\ UNCHANGED <<wallets, txlog, transfers, wbuf, init0, credit_expiry, wallet_settings>>

NextService ==
    \E p \in Procs :
        \/ \E u \in Users, a \in CallAmounts, sid \in SourceIds :
             StartAddCredits(p, u, a, sid)
        \/ AddInsertWallet(p)
        \/ CallSave(p)
        \/ CallCreateTx(p)
        \/ AddSourceId(p)
        \/ \E i \in WalletIds, j \in WalletIds, a \in CallAmounts :
             ValidateTransfer(p, i, j, a)
        \/ Finish(p)

SpecService == Init /\ [][NextService]_vars

\* C22: the transaction log is append-only: once a Transaction row has been
\* created, no wallet-service operation changes any of its fields or
\* deletes it.
C22_LogAppendOnly ==
    [][\A i \in DOMAIN txlog : \A k \in DOMAIN txlog[i] :
          /\ k \in DOMAIN txlog'[i]
          /\ txlog'[i][k] = txlog[i][k]]_vars

\* rules['daily_transfer_limit'] = Decimal('1000.0'), in units
daily_transfer_limit == 10000000

\* the total of the completed transfers a wallet has sent (today)
RECURSIVE CompletedFrom(_, _)
CompletedFrom(i, n) ==
    IF n = 0 THEN 0
    ELSE CompletedFrom(i, n - 1)
         + (IF /\ transfers[n].from = i
               /\ transfers[n].status = "completed"
               /\ transfers[n].xact = "none"
            THEN transfers[n].amount ELSE 0)

\* p's validate_transfer_rules call has returned
Validated(p) == proc[p].pc = "done" /\ proc[p].req = "validate"

\* C24: validate_transfer_rules returns valid = false with a reason when the
\* amount is below the minimum transfer or when the sender's completed
\* transfers of the day plus the amount exceed the daily limit, returns
\* valid = true otherwise, and changes no state.
C24_ValidateTransferRules ==
    \A p \in Procs :
        Validated(p)
        => /\ IF \/ proc[p].amount < minimum_transfer
                 \/ CompletedFrom(proc[p].fw.id, Len(transfers))
                      + proc[p].amount > daily_transfer_limit
              THEN proc[p].result = "invalid" /\ proc[p].err # ""
              ELSE proc[p].result = "valid"
           /\ (~proc[p].overlap => wallets = proc[p].store0)

\* ---- one transfer_credits call, on wallets of any status -----------------------
\* CarbonWallet.STATUS_CHOICES
Statuses == {"active", "frozen", "closed"}
\* the shapes of InitShapes and one more: after add_credits(InitFund) and
\* freeze_credits(InitFund - 1), less is available than is frozen
TransferShapes == InitShapes \cup {<<InitFund, InitFund - 1>>}
StatusRow(owner, s, status) == [InitRow(owner, s) EXCEPT !.status = status]

\* u1 has a wallet; u2 has none yet, or one
TransferTables ==
    {<<StatusRow("u1", s, st)>> : s \in TransferShapes, st \in Statuses}
    \cup {<<StatusRow("u1", s1, st1), StatusRow("u2", s2, st2)>> :
             s1 \in TransferShapes, st1 \in Statuses,
             s2 \in TransferShapes, st2 \in Statuses}

InitTransfer ==
    /\ wallets \in TransferTables
    /\ txlog = [i \in DOMAIN wallets |->
                 InitLog(<<wallets[i].balance, wallets[i].frozen>>)]
    /\ transfers = <<>>
    /\ wbuf = [p \in Procs |-> EmptyBuf]
    /\ proc = [p \in Procs |-> Idle]
    /\ started = 0
    /\ init0 = wallets
    /\ credit_expiry = <<>>
    /\ wallet_settings = [i \in DOMAIN wallets |-> SettingsRow(i)]

NextTransfer ==
    \E p \in Procs :
        \/ \E u \in Users, e \in Emails, a \in Amounts :
             started = 0 /\ StartTransfer(p, u, e, a)
        \/ TransferGetTo(p)
        \/ TransferInsertTo(p)
        \/ TransferCreate(p)
        \/ ExecuteFreeze(p)
        \/ ExecuteFreezeTx(p)
        \/ ExecuteDeduct(p)
        \/ ExecuteDeductTx(p)
        \/ ExecuteAdd(p)
        \/ ExecuteAddTx(p)
        \/ ExecuteComplete(p)
        \/ ExecuteExcept(p)
        \/ ExecuteUnfreeze(p)
        \/ ExecuteUnfreezeTx(p)
        \/ TransferCommit(p)
        \/ Finish(p)

SpecTransfer == InitTransfer /\ [][NextTransfer]_vars

\* the wallets an owner had when the call began
InitOf(owner) == {i \in DOMAIN init0 : init0[i].owner = owner}
\* p's transfer_credits call has returned
TransferReturned(p) == proc[p].pc = "done" /\ proc[p].req = "transfer"

\* C25: a transfer_credits call whose source wallet or destination wallet
\* has a status other than active (frozen or closed) is rejected with an
\* error result and changes neither wallet's balance, available_balance or
\* frozen_balance.
C25_InactiveWalletRejected ==
    \A p \in Procs :
        TransferReturned(p)
        => \A i \in InitOf(proc[p].fromUser), j \in InitOf(proc[p].toEmail) :
             (init0[i].status # "active" \/ init0[j].status # "active")
             => /\ proc[p].result = "error"
                /\ wallets[i] = init0[i]
                /\ wallets[j] = init0[j]

\* p's transfer_credits call has returned, and its transfer went through
\* the debit and the credit: it is stored completed, or failed by the
\* statement that follows the credit
DebitedAndCredited(p) ==
    /\ TransferReturned(p) /\ proc[p].tr.id # 0
    /\ \/ transfers[proc[p].tr.id].status = "completed"
       \/ transfers[proc[p].tr.id].failure_reason = NameErrorText

FailedBeforeDebit(p) ==
    /\ TransferReturned(p) /\ proc[p].tr.id # 0
    /\ transfers[proc[p].tr.id].status = "failed"
    /\ wallets[proc[p].fw0.id].balance = proc[p].fw0.balance

\* C27: when a transfer fails, the compensating unfreeze releases only what
\* that transfer itself froze: the source wallet's frozen_balance and
\* available_balance after the failed transfer equal their pre-attempt
\* values, also when the source already held frozen credits before the
\* attempt and the failure happened at the freeze step.
C27_UnfreezeOnlyOwnFreeze ==
    \A p \in Procs :
        FailedBeforeDebit(p)
        => /\ wallets[proc[p].fw0.id].frozen = proc[p].fw0.frozen
           /\ wallets[proc[p].fw0.id].available = proc[p].fw0.available

\* C28: a transfer whose source and destination are the same wallet (the
\* sender names their own email as recipient) leaves that wallet's stored
\* balance equal to its pre-transfer value: the stored row is never
\* overwritten from a stale in-memory copy.
C28_SelfTransferKeepsBalance ==
    \A p \in Procs :
        (/\ TransferReturned(p) /\ proc[p].tr.id # 0
         /\ proc[p].fw0.id = proc[p].tw0.id)
        => wallets[proc[p].fw0.id].balance = proc[p].fw0.balance

\* ---- process_auto_transfers on wallets of any kind (claim C30) ------------------
\* CarbonWallet.WALLET_TYPES
Kinds == {"employee", "employer", "system"}
KindRow(owner, s, kind) == [InitRow(owner, s) EXCEPT !.kind = kind]

\* u1 has one funded wallet of any kind, or an employee wallet and a funded
\* wallet of another kind; u2 has no wallet yet
KindTables ==
    {<<KindRow("u1", s, k)>> : s \in InitShapes \ {<<0, 0>>}, k \in Kinds}
    \cup {<<KindRow("u1", s1, "employee"), KindRow("u1", s2, k)>> :
             s1 \in InitShapes, s2 \in InitShapes \ {<<0, 0>>},
             k \in Kinds \ {"employee"}}

InitKinds ==
    /\ wallets \in KindTables
    /\ txlog = [i \in DOMAIN wallets |->
                 InitLog(<<wallets[i].balance, wallets[i].frozen>>)]
    /\ transfers = <<>>
    /\ wbuf = [p \in Procs |-> EmptyBuf]
    /\ proc = [p \in Procs |-> Idle]
    /\ started = 0
    /\ init0 = wallets
    /\ credit_expiry = <<>>
    /\ wallet_settings \in
         {s \in [DOMAIN wallets ->
                   UNION {SettingsChoices(i) : i \in DOMAIN wallets}] :
             \A i \in DOMAIN wallets : s[i].wallet = i}

SpecKinds == InitKinds /\ [][NextAuto]_vars

\* C30: when process_auto_transfers triggers on a wallet's settings, the
\* credits are debited from that same wallet, the one whose
\* available_balance was compared with the threshold, whatever its kind; no
\* other wallet of the same owner is debited.
C30_DebitsSettingsWallet ==
    \A p \in Procs :
        /\ (proc[p].req = "auto" /\ proc[p].tr.id # 0)
           => proc[p].tr.from = proc[p].sw.id
        /\ (AutoRunDone(p) /\ started = 1)
           => \A i \in DOMAIN init0 :
                wallets[i].balance < init0[i].balance
                => \E k \in DOMAIN proc[p].batch :
                     /\ proc[p].batch[k].wallet = i
                     /\ proc[p].batch[k].recipient # ""

\* ---- the result of transfer_credits (claim C29) ----------------------------------
\* C29: every transfer_credits call that creates a Transfer record returns a
\* result with that Transfer persisted in status completed, or in status
\* failed with a non-empty failure_reason; no Transfer created by
\* transfer_credits is left in status pending.  Stated of the call that has
\* returned: its Transfer row is committed and is in one of the two states.
C29_TransferSettled ==
    \A p \in Procs :
        (TransferReturned(p) /\ proc[p].tr.id # 0)
        => /\ transfers[proc[p].tr.id].xact = "none"
           /\ \/ transfers[proc[p].tr.id].status = "completed"
              \/ /\ transfers[proc[p].tr.id].status = "failed"
                 /\ transfers[proc[p].tr.id].failure_reason # ""

====
